---------------------------- MODULE Spec2Model ----------------------------
(***************************************************************************)
(* A model of src/main.py, the OSM road scraper: the region table, the     *)
(* two-step Overpass query (overpass_query), the name indexer (find_names),*)
(* the per-name export (extract_roads) and the orchestrating loop (main).  *)
(*                                                                         *)
(* The region table of lines 46-67 is read as the dict literal it is meant *)
(* to be (its entries lack the separating commas).  Python integers are    *)
(* unbounded while TLC's are 32 bits wide, so identifiers are kept as two  *)
(* limbs <<hi, lo>> standing for hi * 100000 + lo.                         *)
(***************************************************************************)
EXTENDS Integers, Sequences, FiniteSets, TLC

VARIABLES
    pc,               \* main: "start", "download", "extract", "done", "aborted"
    regionIdx,        \* main: position of `for region in regions`
    classIdx,         \* download_data: position of the highway-class loop
    road_network,     \* main: the layers download_data collected for the region
    error,            \* the exception that ended the run, or "none"
    relationsOf,      \* the service: relations its boundary query returns per region
    boundaryQueries,  \* history: boundary queries issued per region
    fetched,          \* history: the (region, class) pairs whose element query was issued
    failed,           \* history: the (region, class) pairs whose element query failed
    calls,            \* history: overpass_query calls per (region, class)
    lastCall,         \* the latest overpass_query call and what it did
    layer,            \* find_names / extract_roads: the object passed in
    names_result,     \* what find_names did with `layer`
    extract_result,   \* what extract_roads did with `layer`
    feature,          \* enrichment: the layer's field names and one feature's attributes
    enriched,         \* enrichment: the output field names and attributes
    written,          \* export: the groups written so far, each with its path
    group,            \* geometry: the ways and nodes of one road group
    built             \* geometry: the line features built for `group`

pipeVars   == <<pc, regionIdx, classIdx, road_network, error, relationsOf,
                boundaryQueries, fetched, failed, calls, lastCall>>
nameVars   == <<layer, names_result, extract_result>>
enrichVars == <<feature, enriched>>
writeVars  == <<written>>
geomVars   == <<group, built>>
vars       == <<pipeVars, nameVars, enrichVars, writeVars, geomVars>>

\* None, kept apart from every string value (a value is a sequence of characters)
Null == <<"None">>

-----------------------------------------------------------------------------
(* Bounds of the model *)

NumRegions == 3   \* the run covers the first NumRegions entries of the table
MaxWays    == 2   \* ways in a raw element collection
MaxWrites  == 2   \* groups written in one export run
MaxRefs    == 3   \* node references of a way
NumNodes   == 2   \* node identifiers a way may reference

-----------------------------------------------------------------------------
(* Static configuration, lines 46-82 *)

regions == <<
    [name |-> "Sicilia",               id |-> <<0, 39152>>],
    [name |-> "Puglia",                id |-> <<0, 40095>>],
    [name |-> "Basilicata",            id |-> <<0, 40137>>],
    [name |-> "Campania",              id |-> <<0, 40218>>],
    [name |-> "Lazio",                 id |-> <<0, 40784>>],
    [name |-> "Molise",                id |-> <<0, 41256>>],
    [name |-> "Toscana",               id |-> <<0, 41977>>],
    [name |-> "Umbria",                id |-> <<0, 42004>>],
    [name |-> "Emilia-Romagna",        id |-> <<0, 42611>>],
    [name |-> "Veneto",                id |-> <<0, 43648>>],
    [name |-> "Piemonte",              id |-> <<0, 44874>>],
    [name |-> "Lombardia",             id |-> <<0, 44879>>],
    [name |-> "Valle d'Aosta",         id |-> <<0, 45155>>],
    [name |-> "Trentino-Alto Adige",   id |-> <<0, 45757>>],
    [name |-> "Marche",                id |-> <<0, 53060>>],
    [name |-> "Abruzzo",               id |-> <<0, 53937>>],
    [name |-> "Friuli-Venezia Giulia", id |-> <<1, 79296>>],
    [name |-> "Liguria",               id |-> <<3, 1482>>],
    [name |-> "Calabria",              id |-> <<17, 83980>>],
    [name |-> "Sardegna",              id |-> <<73, 61997>>] >>

highway_tags == <<"motorway", "trunk", "primary", "secondary", "tertiary">>

name_tags == <<"ref", "nat_ref", "reg_ref", "alt_name">>

\* 3600000000, line 98
AreaOffset == <<36000, 0>>

\* Python's + on two unbounded integers, on limbs
BigAdd(a, b) ==
    LET lo == a[2] + b[2]
    IN  <<a[1] + b[1] + (lo \div 100000), lo % 100000>>

-----------------------------------------------------------------------------
(* overpass_query, lines 85-111 *)

Query(kind, region, value, area) ==
    [kind |-> kind, region |-> region, value |-> value, area |-> area]

NoArea == <<0, 0>>

\* relations[0] of line 97 taken from the wrong end of the list
FirstRelationLast(relations) == relations[Len(relations)]

\* result_region.relations[0], line 97
FirstRelation(relations) == relations[1]

\* One call: the queries it issues, the exception it raises ("none" when it
\* returns) and the area identifier it derived.  `relations` is what the
\* service answers to the boundary query, `fetch_ok` whether the element
\* query comes back.
overpass_query(region, value, relations, fetch_ok) ==
    LET query_region == Query("region", region, "", NoArea)
    IN  IF Len(relations) = 0
        THEN [region |-> region, value |-> value, relations |-> relations,
              queries |-> <<query_region>>, raised |-> "IndexError",
              area_id |-> NoArea]
        ELSE LET relation_id    == FirstRelation(relations).id
                 area_id        == BigAdd(AreaOffset, relation_id)
                 query_highways == Query("highways", region, value, area_id)
             IN  [region |-> region, value |-> value, relations |-> relations,
                  queries |-> <<query_region, query_highways>>,
                  raised |-> IF fetch_ok THEN "none" ELSE "OverpassError",
                  area_id |-> area_id]

NoCall == [region |-> "", value |-> "", relations |-> <<>>, queries |-> <<>>,
           raised |-> "none", area_id |-> NoArea]

Relation(i) == [id |-> regions[i].id]

NextIdx(i) == (i % Len(regions)) + 1

\* What the boundary query may return for the i-th region of the table
RelationLists(i) ==
    { <<>>,
      <<Relation(i)>>,
      <<Relation(i), Relation(NextIdx(i))>>,
      <<Relation(NextIdx(i)), Relation(i)>> }

-----------------------------------------------------------------------------
(* Tag mappings and layers.  A way's tags are a function from the keys it  *)
(* carries to their values; a value is a sequence of characters.  A layer  *)
(* is the object handed to find_names and extract_roads: `api` tells which *)
(* of the two interfaces the code uses on it the object offers, "ways"     *)
(* (an overpy result) and "fields" (a QGIS vector layer); its features are *)
(* its ways, one attribute per tag key.                                    *)

Range(s) == { s[i] : i \in DOMAIN s }

Get(dict, key) == IF key \in DOMAIN dict THEN dict[key] ELSE Null

LayerFields(ways) ==
    SelectSeq(<<"highway">> \o name_tags,
              LAMBDA k : \E i \in DOMAIN ways : k \in DOMAIN ways[i])

-----------------------------------------------------------------------------
(* find_names, lines 156-166 *)

\* A local that no assignment has bound yet
Unbound == <<"<unbound>">>

Raise(exc) == [raised |-> exc, names |-> {}]

Return(names) == [raised |-> "none", names |-> names]

\* enumerate(overpass_result.ways), line 158: (index, way) tuples
Enumerate(ways) == [i \in DOMAIN ways |-> <<i - 1, ways[i]>>]

\* Lines 160-163.  `way` is an (index, way) tuple, which has no attribute
\* `tags`: the lookup raises AttributeError, the bare except swallows it and
\* the local `value` keeps what it held.
TryHighwayTag(item, value) == value

RECURSIVE ScanTags(_, _, _, _, _)
RECURSIVE ScanWays(_, _, _, _)

\* The inner loop, lines 159-165
ScanTags(items, i, t, value, road_names) ==
    IF t > Len(name_tags)
    THEN ScanWays(items, i + 1, value, road_names)
    ELSE LET v == TryHighwayTag(items[i], value)
         IN  IF v = Unbound
             THEN Raise("UnboundLocalError")       \* `if value:`, line 164
             ELSE IF v # <<>>
                  THEN Raise("TypeError")          \* set.add(value, tag), line 165
                  ELSE ScanTags(items, i, t + 1, v, road_names)

\* The outer loop, line 158
ScanWays(items, i, value, road_names) ==
    IF i > Len(items)
    THEN Return(road_names)
    ELSE ScanTags(items, i, 1, value, road_names)

find_names(overpass_result) ==
    IF "ways" \notin overpass_result.api
    THEN Raise("AttributeError")
    ELSE ScanWays(Enumerate(overpass_result.ways), 1, Unbound, {})

-----------------------------------------------------------------------------
(* extract_roads, lines 168-218 *)

\* The columns of custom_table.csv, lines 169-171
custom_field_names ==
    <<"maxheight", "maxweight", "maxwidth", "maxaxleload", "roadowner", "owner_id">>

\* output_fields, lines 173-180
OutputFields(existing_field_names, custom) ==
    existing_field_names
        \o SelectSeq(custom, LAMBDA n : n \notin Range(existing_field_names))

\* dict(zip(existing_field_names, feature.attributes())), line 210
AttrDict(existing_field_names, attributes) ==
    LET n == IF Len(existing_field_names) < Len(attributes)
             THEN Len(existing_field_names) ELSE Len(attributes)
        last(k) == CHOOSE i \in 1..n :
                       /\ existing_field_names[i] = k
                       /\ \A j \in (i + 1)..n : existing_field_names[j] # k
    IN  [k \in { existing_field_names[i] : i \in 1..n } |-> attributes[last(k)]]

\* Line 212 with the schema's keys forced to None
NewAttrsDefaulted(existing_field_names, attr_dict) ==
    [i \in DOMAIN existing_field_names |->
        IF existing_field_names[i] \in Range(custom_field_names)
        THEN Null ELSE Get(attr_dict, existing_field_names[i])]

\* new_attrs, line 212
NewAttrs(existing_field_names, attr_dict) ==
    [i \in DOMAIN existing_field_names |-> Get(attr_dict, existing_field_names[i])]

\* extra_attrs, line 213
ExtraAttrs(existing_field_names, custom, attr_dict) ==
    LET extra == SelectSeq(custom, LAMBDA n : n \notin Range(existing_field_names))
    IN  [i \in DOMAIN extra |->
            IF extra[i] \in DOMAIN attr_dict THEN Get(attr_dict, extra[i]) ELSE Null]

\* The feature written at lines 207-215: the output fields and new_attrs + extra_attrs
EnrichFeature(existing_field_names, attributes) ==
    LET attr_dict == AttrDict(existing_field_names, attributes)
    IN  [fields |-> OutputFields(existing_field_names, custom_field_names),
         attrs  |-> NewAttrs(existing_field_names, attr_dict)
                        \o ExtraAttrs(existing_field_names, custom_field_names, attr_dict)]

\* A path component: a region name or a file name (`name`, `geom`), or a
\* segment of a tag value (`chars`)
Part(name, geom, chars) == [name |-> name, geom |-> geom, chars |-> chars]

RECURSIVE Segments(_, _)
\* pathlib's parsing of a string: its "/"-separated segments, empty ones dropped;
\* `cur` is the segment being read
Segments(s, cur) ==
    IF s = <<>>
    THEN IF cur = <<>> THEN <<>> ELSE <<Part("", "", cur)>>
    ELSE IF Head(s) = "/"
         THEN (IF cur = <<>> THEN <<>> ELSE <<Part("", "", cur)>>) \o Segments(Tail(s), <<>>)
         ELSE Segments(Tail(s), Append(cur, Head(s)))

\* pathlib's `/`: an absolute right-hand side replaces the left-hand side
PathJoin(base, s) ==
    IF s # <<>> /\ Head(s) = "/"
    THEN [abs |-> TRUE, parts |-> Segments(s, <<>>)]
    ELSE [abs |-> base.abs, parts |-> base.parts \o Segments(s, <<>>)]

\* file_path, lines 188-190: Path(region) / value / f"{tag}_{geometry_type}.gpkg"
FilePath(region, value, tag, geometry_type) ==
    LET dir_path == PathJoin([abs |-> FALSE, parts |-> <<Part(region, "", <<>>)>>], value)
    IN  [abs |-> dir_path.abs,
         parts |-> Append(dir_path.parts, Part(tag, geometry_type, <<>>))]

\* getFeatures with the filter f"{tag} = '{value}'", lines 203-206
SelectFeatures(ways, value, tag) ==
    { i \in DOMAIN ways : tag \in DOMAIN ways[i] /\ ways[i][tag] = value }

\* The loop body, lines 188-215, for one (value, tag) of road_names
WriteGroup(input_layer, region, value, tag) ==
    LET existing_field_names == LayerFields(input_layer.ways)
    IN  [value |-> value, tag |-> tag,
         path |-> FilePath(region, value, tag, input_layer.geometry_type),
         members |-> SelectFeatures(input_layer.ways, value, tag),
         features |->
            { EnrichFeature(existing_field_names,
                            [k \in DOMAIN existing_field_names |->
                                Get(input_layer.ways[i], existing_field_names[k])])
              : i \in SelectFeatures(input_layer.ways, value, tag) }]

extract_roads(input_layer, region) ==
    IF "fields" \notin input_layer.api
    THEN [raised |-> "AttributeError", groups |-> {}]      \* input_layer.fields(), line 174
    ELSE LET road_names == find_names(input_layer)        \* line 185
         IN  IF road_names.raised # "none"
             THEN [raised |-> road_names.raised, groups |-> {}]
             ELSE [raised |-> "none",
                   groups |-> { WriteGroup(input_layer, region, vt[1], vt[2])
                                : vt \in road_names.names }]

\* main's call extract_roads(layer), line 235, against the signature
\* extract_roads(input_layer, region) of line 168
extract_roads_call(args) ==
    IF Len(args) # 2
    THEN [raised |-> "TypeError", groups |-> {}]
    ELSE extract_roads(args[1], args[2])

-----------------------------------------------------------------------------
(* Geometry Builder, spec section 4.5 (its code is not part of src/) *)

Node(id) == [id |-> id, lon |-> 10 + id, lat |-> 40 + id]

\* node identifier -> (longitude, latitude), from the group's node set
CoordLookup(nodes) == [id \in { n.id : n \in nodes } |-> <<Node(id).lon, Node(id).lat>>]

RECURSIVE WayCoordsUnique(_, _)
\* The coordinate list with a node already seen left out
WayCoordsUnique(refs, lookup) ==
    IF refs = <<>>
    THEN <<>>
    ELSE LET rest == WayCoordsUnique(Tail(refs), lookup)
         IN  IF Head(refs) \in DOMAIN lookup /\ Head(refs) \notin Range(Tail(refs))
             THEN <<lookup[Head(refs)]>> \o rest
             ELSE rest

RECURSIVE WayCoords(_, _)
\* Each referenced node looked up in order, unresolvable references dropped
WayCoords(refs, lookup) ==
    IF refs = <<>>
    THEN <<>>
    ELSE IF Head(refs) \in DOMAIN lookup
         THEN <<lookup[Head(refs)]>> \o WayCoords(Tail(refs), lookup)
         ELSE WayCoords(Tail(refs), lookup)

\* A group whose every way must resolve, or nothing is built
BuildLinesAllOrNothing(g) ==
    LET lookup == CoordLookup(g.nodes)
    IN  IF \E i \in DOMAIN g.ways : Len(WayCoords(g.ways[i].nodes, lookup)) < 2
        THEN [raised |-> "none", lines |-> {}]
        ELSE [raised |-> "none",
              lines |-> { [way |-> g.ways[i].id,
                           coordinates |-> WayCoords(g.ways[i].nodes, lookup)]
                          : i \in DOMAIN g.ways }]

\* One LineString per way with at least 2 resolved coordinates
BuildLines(g) ==
    LET lookup == CoordLookup(g.nodes)
    IN  [raised |-> "none",
         lines |-> { [way |-> g.ways[i].id,
                      coordinates |-> WayCoords(g.ways[i].nodes, lookup)]
                     : i \in { j \in DOMAIN g.ways :
                                 Len(WayCoords(g.ways[j].nodes, lookup)) >= 2 } }]

-----------------------------------------------------------------------------
(* The inputs the specifications draw from *)

RECURSIVE SeqsUpTo(_, _)
\* The sequences over S of length at most n
SeqsUpTo(S, n) ==
    IF n = 0 THEN { <<>> }
    ELSE LET shorter == SeqsUpTo(S, n - 1)
         IN  shorter \cup { Append(q, x) : q \in shorter, x \in S }

Word(w) == <<w>>

NameValues == { Word("A"), Word("B") }

\* A way's tags: highway, and any of the name keys
TagMaps ==
    { ("highway" :> Word("primary")) @@ names :
        names \in UNION { [D -> NameValues] : D \in SUBSET Range(name_tags) } }

\* The layers of at most n ways
Layers(n) ==
    [api : { {"ways"}, {"fields"}, {"ways", "fields"} },
     ways : SeqsUpTo(TagMaps, n),
     geometry_type : { "LineString" }]

\* The result object overpass_query returns for a (region, class) pair
ResultLayer(region, value) ==
    [api |-> {"ways"}, ways |-> <<>>, geometry_type |-> "LineString",
     region |-> region, value |-> value]

NoLayer == [api |-> {}, ways |-> <<>>, geometry_type |-> ""]

FieldUniverse == <<"highway", "ref">> \o custom_field_names

\* The field lists a layer may have: the universe's sub-sequences
FieldLists ==
    { SelectSeq(FieldUniverse, LAMBDA k : k \in D) : D \in SUBSET Range(FieldUniverse) }

Features ==
    UNION { [fields : {f}, attrs : [DOMAIN f -> { Null, Word("x") }]] : f \in FieldLists }

NoFeature == [fields |-> <<>>, attrs |-> <<>>]

\* Tag values as the export sees them: strings over a letter and the separator
PathValues == SeqsUpTo({ "S", "/" }, 2) \ { <<>>, <<"/">>, <<"/", "/">> }

ExportRegions == { regions[1].name, regions[2].name }

NodeIds == 1..NumNodes

Groups ==
    [ways : { << [id |-> 1, nodes |-> r1], [id |-> 2, nodes |-> r2] >> :
                r1 \in SeqsUpTo(NodeIds, MaxRefs), r2 \in SeqsUpTo(NodeIds, 2) },
     nodes : { { Node(id) : id \in D } : D \in SUBSET NodeIds }]

NoGroup == [ways |-> <<>>, nodes |-> {}]

NotBuilt == [done |-> FALSE, raised |-> "none", lines |-> {}]

-----------------------------------------------------------------------------
(* Initial states *)

Pairs == (1..NumRegions) \X (1..Len(highway_tags))

PipeIdle ==
    /\ pc = "start"
    /\ regionIdx = 1
    /\ classIdx = 1
    /\ road_network = <<>>
    /\ error = "none"
    /\ boundaryQueries = [i \in 1..NumRegions |-> 0]
    /\ fetched = {}
    /\ failed = {}
    /\ calls = [p \in Pairs |-> 0]
    /\ lastCall = NoCall

NamesIdle ==
    /\ names_result = [called |-> FALSE, raised |-> "none", names |-> {}]
    /\ extract_result = [called |-> FALSE, raised |-> "none", groups |-> {}]

EnrichIdle == enriched = [done |-> FALSE, fields |-> <<>>, attrs |-> <<>>]

Init ==
    /\ PipeIdle
    /\ relationsOf \in { f \in [1..NumRegions -> UNION { RelationLists(i) : i \in 1..NumRegions }] :
                           \A i \in 1..NumRegions : f[i] \in RelationLists(i) }
    /\ layer = NoLayer /\ NamesIdle
    /\ feature = NoFeature /\ EnrichIdle
    /\ written = {}
    /\ group = NoGroup /\ built = NotBuilt

\* Nothing drawn: the operations' inputs come with each call
InitIdle ==
    /\ PipeIdle
    /\ relationsOf = [i \in 1..NumRegions |-> <<>>]
    /\ layer = NoLayer /\ NamesIdle
    /\ feature = NoFeature /\ EnrichIdle
    /\ written = {}
    /\ group = NoGroup /\ built = NotBuilt

InitNames ==
    /\ PipeIdle
    /\ relationsOf = [i \in 1..NumRegions |-> <<>>]
    /\ layer \in Layers(MaxWays) /\ NamesIdle
    /\ feature = NoFeature /\ EnrichIdle
    /\ written = {}
    /\ group = NoGroup /\ built = NotBuilt

InitEnrich ==
    /\ PipeIdle
    /\ relationsOf = [i \in 1..NumRegions |-> <<>>]
    /\ layer = NoLayer /\ NamesIdle
    /\ feature \in Features /\ EnrichIdle
    /\ written = {}
    /\ group = NoGroup /\ built = NotBuilt

InitGeom ==
    /\ PipeIdle
    /\ relationsOf = [i \in 1..NumRegions |-> <<>>]
    /\ layer = NoLayer /\ NamesIdle
    /\ feature = NoFeature /\ EnrichIdle
    /\ written = {}
    /\ group \in Groups /\ built = NotBuilt

-----------------------------------------------------------------------------
(* main, lines 220-237, with download_data, which main calls at line 233   *)
(* and src/ does not define: it is modelled from spec section 4.8 as the   *)
(* loop over highway_tags that calls overpass_query for each class, skips  *)
(* a class whose fetch fails and skips the region when it does not resolve *)

\* `for region in regions`, line 232: the next region, if any
MainNextRegion ==
    /\ pc = "start"
    /\ regionIdx <= NumRegions
    /\ pc' = "download"
    /\ classIdx' = 1
    /\ road_network' = <<>>
    /\ UNCHANGED <<regionIdx, error, relationsOf, boundaryQueries, fetched, failed, calls, lastCall>>
    /\ UNCHANGED <<nameVars, enrichVars, writeVars, geomVars>>

\* download_data(region), one highway class
DownloadClass ==
    /\ pc = "download"
    /\ \E fetch_ok \in BOOLEAN :
        LET region == regions[regionIdx].name
            value  == highway_tags[classIdx]
            call   == overpass_query(region, value, relationsOf[regionIdx], fetch_ok)
            last   == classIdx = Len(highway_tags)
        IN  /\ lastCall' = call
            /\ calls' = [calls EXCEPT ![<<regionIdx, classIdx>>] = @ + 1]
            /\ boundaryQueries' =
                 [boundaryQueries EXCEPT ![regionIdx] =
                    @ + Cardinality({ k \in DOMAIN call.queries : call.queries[k].kind = "region" })]
            /\ fetched' = IF \E k \in DOMAIN call.queries : call.queries[k].kind = "highways"
                          THEN fetched \cup { <<regionIdx, classIdx>> }
                          ELSE fetched
            /\ failed' = IF call.raised = "OverpassError"
                         THEN failed \cup { <<regionIdx, classIdx>> }
                         ELSE failed
            /\ IF call.raised = "IndexError"
               THEN /\ pc' = "extract"
                    /\ UNCHANGED <<classIdx, road_network>>
               ELSE /\ pc' = IF last THEN "extract" ELSE "download"
                    /\ classIdx' = classIdx + 1
                    /\ road_network' = IF call.raised = "none"
                                       THEN Append(road_network, ResultLayer(region, value))
                                       ELSE road_network
    /\ UNCHANGED <<regionIdx, error, relationsOf>>
    /\ UNCHANGED <<nameVars, enrichVars, writeVars, geomVars>>

\* `for layer in road_network: extract_roads(layer)`, lines 234-235
MainExtract ==
    /\ pc = "extract"
    /\ road_network # <<>>
    /\ LET r == extract_roads_call(<<Head(road_network)>>)
       IN  IF r.raised # "none"
           THEN /\ pc' = "aborted"
                /\ error' = r.raised
                /\ UNCHANGED road_network
           ELSE /\ road_network' = Tail(road_network)
                /\ UNCHANGED <<pc, error>>
    /\ UNCHANGED <<regionIdx, classIdx, relationsOf, boundaryQueries, fetched, failed, calls, lastCall>>
    /\ UNCHANGED <<nameVars, enrichVars, writeVars, geomVars>>

\* The region's layers are exhausted: back to line 232
MainRegionDone ==
    /\ pc = "extract"
    /\ road_network = <<>>
    /\ pc' = "start"
    /\ regionIdx' = regionIdx + 1
    /\ UNCHANGED <<classIdx, road_network, error, relationsOf, boundaryQueries, fetched,
                   failed, calls, lastCall>>
    /\ UNCHANGED <<nameVars, enrichVars, writeVars, geomVars>>

\* qgs.exitQgis(), line 237
MainExit ==
    /\ pc = "start"
    /\ regionIdx > NumRegions
    /\ pc' = "done"
    /\ UNCHANGED <<regionIdx, classIdx, road_network, error, relationsOf, boundaryQueries,
                   fetched, failed, calls, lastCall>>
    /\ UNCHANGED <<nameVars, enrichVars, writeVars, geomVars>>

Next == MainNextRegion \/ DownloadClass \/ MainExtract \/ MainRegionDone \/ MainExit

Spec == Init /\ [][Next]_vars

-----------------------------------------------------------------------------
(* overpass_query called on its own, for any region of the table *)

QueryCall ==
    /\ lastCall = NoCall
    /\ \E i \in DOMAIN regions, c \in DOMAIN highway_tags, fetch_ok \in BOOLEAN :
         \E relations \in RelationLists(i) :
            lastCall' = overpass_query(regions[i].name, highway_tags[c], relations, fetch_ok)
    /\ UNCHANGED <<pc, regionIdx, classIdx, road_network, error, relationsOf, boundaryQueries,
                   fetched, failed, calls>>
    /\ UNCHANGED <<nameVars, enrichVars, writeVars, geomVars>>

NextQuery == QueryCall

SpecQuery == InitIdle /\ [][NextQuery]_vars

-----------------------------------------------------------------------------
(* find_names and extract_roads applied to a layer *)

FindNamesCall ==
    /\ ~names_result.called
    /\ names_result' = [called |-> TRUE] @@ find_names(layer)
    /\ UNCHANGED <<layer, extract_result>>
    /\ UNCHANGED <<pipeVars, enrichVars, writeVars, geomVars>>

ExtractRoadsCall ==
    /\ ~extract_result.called
    /\ extract_result' = [called |-> TRUE] @@ extract_roads(layer, regions[1].name)
    /\ UNCHANGED <<layer, names_result>>
    /\ UNCHANGED <<pipeVars, enrichVars, writeVars, geomVars>>

NextNames == FindNamesCall \/ ExtractRoadsCall

SpecNames == InitNames /\ [][NextNames]_vars

-----------------------------------------------------------------------------
(* The enrichment of lines 173-180 and 206-215 applied to one feature *)

Enrich ==
    /\ ~enriched.done
    /\ enriched' = [done |-> TRUE] @@ EnrichFeature(feature.fields, feature.attrs)
    /\ UNCHANGED feature
    /\ UNCHANGED <<pipeVars, nameVars, writeVars, geomVars>>

NextEnrich == Enrich

SpecEnrich == InitEnrich /\ [][NextEnrich]_vars

-----------------------------------------------------------------------------
(* The loop body of lines 188-215 run for the groups of one export run:    *)
(* the (value, tag) of a layer fetched for a (region, class) pair          *)

ExportGroup ==
    /\ Cardinality(written) < MaxWrites
    /\ \E region \in ExportRegions, c \in DOMAIN highway_tags,
          value \in PathValues, tag \in Range(name_tags) :
         LET input_layer == [api |-> {"ways", "fields"},
                             ways |-> << ("highway" :> Word(highway_tags[c])) @@ (tag :> value) >>,
                             geometry_type |-> "LineString"]
             g == WriteGroup(input_layer, region, value, tag)
         IN  written' = written \cup
                 { [region |-> region, class |-> highway_tags[c], value |-> value,
                    tag |-> tag, path |-> g.path] }
    /\ UNCHANGED <<pipeVars, nameVars, enrichVars, geomVars>>

NextWrite == ExportGroup

SpecWrite == InitIdle /\ [][NextWrite]_vars

-----------------------------------------------------------------------------
(* The Geometry Builder applied to one group *)

Build ==
    /\ ~built.done
    /\ built' = [done |-> TRUE] @@ BuildLines(group)
    /\ UNCHANGED group
    /\ UNCHANGED <<pipeVars, nameVars, enrichVars, writeVars>>

NextGeom == Build

SpecGeom == InitGeom /\ [][NextGeom]_vars

-----------------------------------------------------------------------------
(* The claims *)

Terminal == pc \in { "done", "aborted" }

Processed(i) == calls[<<i, 1>>] > 0

\* C1: when the boundary query of a region returns zero relations, none of
\* the region's highway classes is fetched, the run does not abort, and
\* every later region of the table is still processed.
C1_ZeroRelationsRunContinues ==
    \A i \in 1..NumRegions :
        (relationsOf[i] = <<>> /\ boundaryQueries[i] > 0)
            => /\ \A c \in DOMAIN highway_tags : <<i, c>> \notin fetched
               /\ error = "none"
               /\ Terminal => \A j \in (i + 1)..NumRegions : Processed(j)

\* C2: a (region, class) pair whose element fetch fails is attempted exactly
\* once and leaves no layer; whatever fetches fail, the run reaches its end
\* with every pair of the resolved regions attempted.
C2_FetchFailuresRunCompletes ==
    /\ \A p \in failed :
          /\ calls[p] = 1
          /\ \A k \in DOMAIN road_network :
                ~(road_network[k].region = regions[p[1]].name
                    /\ road_network[k].value = highway_tags[p[2]])
    /\ (failed # {} /\ Terminal /\ \A i \in 1..NumRegions : relationsOf[i] # <<>>)
          => /\ pc = "done"
             /\ \A p \in Pairs : calls[p] = 1

\* C8: when the boundary query returns at least one relation, the element
\* query is bounded by the area 3600000000 + the first relation's identifier.
C8_AreaIdIsOffsetPlusFirstRelation ==
    (lastCall.queries # <<>> /\ lastCall.relations # <<>>)
        => LET id == lastCall.relations[1].id
           IN  /\ Len(lastCall.queries) = 2
               /\ lastCall.queries[2].kind = "highways"
               /\ lastCall.queries[2].area[1] = 36000 + id[1]
               /\ lastCall.queries[2].area[2] = id[2]

\* C8's case: Sardegna's relation 7361997 comes first of two, area 3607361997
C8_Witness ==
    /\ Len(lastCall.relations) = 2
    /\ lastCall.relations[1].id = <<73, 61997>>
    /\ Len(lastCall.queries) = 2
    /\ lastCall.queries[2].area = <<36073, 61997>>

\* C9: in one run the boundary query is issued at most once per region, and
\* a region that did not resolve sees no further boundary or element query.
C9_BoundaryQueryOncePerRegion ==
    /\ \A i \in 1..NumRegions : boundaryQueries[i] <= 1
    /\ \A i \in 1..NumRegions :
          relationsOf[i] = <<>> => \A c \in DOMAIN highway_tags : <<i, c>> \notin fetched

HasNameTag(tags) == \E k \in Range(name_tags) : k \in DOMAIN tags

\* The value of the first key of the priority list the tags carry
FirstNameValue(tags) ==
    tags[name_tags[CHOOSE t \in DOMAIN name_tags :
                      /\ name_tags[t] \in DOMAIN tags
                      /\ \A u \in 1..(t - 1) : name_tags[u] \notin DOMAIN tags]]

GroupsOf(i) == { g \in extract_result.groups : i \in g.members }

\* C3: grouping is a partition over the ways with a recognized name tag:
\* each such way is in exactly one group, a way without one is in none.
C3_GroupingIsPartition ==
    (extract_result.called /\ layer.api = {"ways", "fields"})
        => \A i \in DOMAIN layer.ways :
              Cardinality(GroupsOf(i)) = IF HasNameTag(layer.ways[i]) THEN 1 ELSE 0

\* C4: find_names returns, without raising, exactly the values of the first
\* priority key of each way that carries a name key (the empty set when
\* none does).
C4_FindNamesFirstKeyValues ==
    (names_result.called /\ "ways" \in layer.api)
        => /\ names_result.raised = "none"
           /\ names_result.names =
                { FirstNameValue(layer.ways[i]) :
                    i \in { j \in DOMAIN layer.ways : HasNameTag(layer.ways[j]) } }

DefaultKeys ==
    { "maxheight", "maxweight", "maxwidth", "maxaxleload", "roadowner", "owner_id" }

Positions(fields, k) == { j \in DOMAIN fields : fields[j] = k }

Resolvable(refs) == { j \in DOMAIN refs : \E n \in group.nodes : n.id = refs[j] }

LinesOf(w) == { l \in built.lines : l.way = w.id }

\* C6: a way with at least 2 resolvable references gets a coordinate list as
\* long as its resolvable references, repeats counted, in reference order.
C6_CoordinatesInReferenceOrder ==
    built.done
        => \A i \in DOMAIN group.ways :
              LET w == group.ways[i]
                  P == Resolvable(w.nodes)
              IN  Cardinality(P) >= 2
                    => /\ LinesOf(w) # {}
                       /\ \A l \in LinesOf(w) :
                             /\ Len(l.coordinates) = Cardinality(P)
                             /\ \A j \in P :
                                   l.coordinates[Cardinality({ k \in P : k <= j })]
                                       = <<Node(w.nodes[j]).lon, Node(w.nodes[j]).lat>>

\* C6's case: references 1, 2, 1 with node 2 missing from the group
C6_Witness ==
    /\ built.done
    /\ group.ways[1].nodes = <<1, 2, 1>>
    /\ group.nodes = { Node(1) }
    /\ \E l \in built.lines : l.way = 1 /\ Len(l.coordinates) = 2

\* C7: a way with fewer than 2 resolvable references yields no line and no
\* error, and every sibling with at least 2 still yields exactly one line.
C7_ShortWayDroppedSiblingsKept ==
    built.done
        => /\ built.raised = "none"
           /\ \A i \in DOMAIN group.ways :
                 LET w == group.ways[i]
                 IN  Cardinality(LinesOf(w)) =
                        IF Cardinality(Resolvable(w.nodes)) < 2 THEN 0 ELSE 1

\* C7's case: the first way resolves one node only, its sibling two
C7_Witness ==
    /\ built.done
    /\ Cardinality(Resolvable(group.ways[1].nodes)) = 1
    /\ Cardinality(Resolvable(group.ways[2].nodes)) = 2
    /\ LinesOf(group.ways[1]) = {}
    /\ Cardinality(LinesOf(group.ways[2])) = 1

=============================================================================
